---- MODULE Spec2Model ----
(***************************************************************************)
(* TalkDocs (src/app.py): a Streamlit page.  Every user interaction re-runs *)
(* main() from the top against the session state (conversation,            *)
(* chat_history) and the widget values (the question text input, the file  *)
(* uploader).  One action of this module is one such script run.           *)
(*                                                                         *)
(* Text is a sequence of one-character strings.  The third-party calls     *)
(* (PdfReader, CharacterTextSplitter, FAISS, ChatGroq, the chain call) are *)
(* not part of the repository: their results are inputs of the run, drawn  *)
(* from the outcomes the code's own guards tell apart.  The environment    *)
(* variables of lines 152-156 are taken to be set.                         *)
(***************************************************************************)
EXTENDS Integers, Sequences, FiniteSets, TLC

VARIABLES
    conversation,   \* st.session_state.conversation: 0 is None, n > 0 the n-th chain object built
    chat_history,   \* st.session_state.chat_history: sequence of <<role, msg>>
    user_question,  \* value held by the st.text_input widget (<<>> is the empty string)
    pdf_docs,       \* value held by the st.file_uploader widget
    out             \* what the last script run did and rendered

vars == <<conversation, chat_history, user_question, pdf_docs, out>>

----------------------------------------------------------------------------
(* Bounds *)

MaxDocs == 2          \* documents in an uploaded batch (extraction runs)
MaxSessionDocs == 2   \* documents in an uploaded batch (session runs)
MaxHistory == 4       \* entries of chat_history
MaxChains == 2        \* chains built in one session

Names == {"b.pdf", "a.pdf"}
Questions == {<<"p">>, <<"q">>}
Replies == {<<"r">>}

----------------------------------------------------------------------------
(* Python values *)

NoneVal == [none |-> TRUE, val |-> <<>>]
Some(v) == [none |-> FALSE, val |-> v]

\* Python truthiness of an Optional[str] / Optional[list]
Truthy(o) == ~o.none /\ o.val # <<>>

IsSpace(c) == c \in {" ", "\n", "\t"}

RECURSIVE LStrip(_)
LStrip(s) == IF s # <<>> /\ IsSpace(Head(s)) THEN LStrip(Tail(s)) ELSE s

RECURSIVE RStrip(_)
RStrip(s) ==
    IF s # <<>> /\ IsSpace(s[Len(s)]) THEN RStrip(SubSeq(s, 1, Len(s) - 1)) ELSE s

\* str.strip()
Strip(s) == RStrip(LStrip(s))

\* sep.join(items), as the sequence of its pieces
RECURSIVE Join(_, _)
Join(items, sep) ==
    IF items = <<>> THEN <<>>
    ELSE IF Len(items) = 1 THEN <<items[1]>>
    ELSE <<items[1], sep>> \o Join(Tail(items), sep)

----------------------------------------------------------------------------
(* Uploaded documents: what PdfReader and page.extract_text() do with them *)

RaisePage == [kind |-> "raise", text |-> <<>>]   \* extract_text() raises
NonePage == [kind |-> "none", text |-> <<>>]     \* extract_text() returns None
TextPage(t) == [kind |-> "text", text |-> t]     \* extract_text() returns t

\* The pages of the documents uploaded: no page, no text, blank text, text,
\* text after a line feed, blank pages only, a page that raises after one that
\* gave text
Contents ==
    { <<>>,
      <<NonePage>>,
      <<TextPage(<<>>)>>,
      <<TextPage(<<" ">>)>>,
      <<TextPage(<<"x">>)>>,
      <<TextPage(<<"\n", "y">>)>>,
      <<TextPage(<<" ">>), TextPage(<<"\n">>)>>,
      <<TextPage(<<"x">>), RaisePage>> }

\* opens = FALSE: PdfReader(pdf) raises
Docs ==
    {[name |-> n, opens |-> FALSE, pages |-> <<>>] : n \in Names}
        \cup {[name |-> n, opens |-> TRUE, pages |-> p] : n \in Names, p \in Contents}

GoodDoc == [name |-> "a.pdf", opens |-> TRUE, pages |-> <<TextPage(<<"x">>)>>]
CorruptDoc == [name |-> "b.pdf", opens |-> FALSE, pages |-> <<>>]
BlankDoc == [name |-> "c.pdf", opens |-> TRUE, pages |-> <<TextPage(<<" ">>)>>]

SessionDocs == {GoodDoc, CorruptDoc, BlankDoc}

----------------------------------------------------------------------------
(* Banners: st.warning / st.error / st.success *)

UnreadableMsg == "The following PDFs could not be read due to corruption or format issues: "
EmptyTextMsg == "The following PDFs had no extractable text: "
NoPdfMsg == "No PDF uploaded. Please upload at least one PDF before processing."
StoppedMsg == "PDF processing stopped. No usable text found."
NoChunksMsg == "No text chunks could be generated. Please try a different document."
VectorstoreFailedMsg == "Vectorstore creation failed."
VectorstoreMissingMsg == "Cannot create conversation chain: vectorstore is missing or invalid."
ChainFailedMsg == "Failed to initialize conversation chain."
SuccessMsg == "PDF(s) processed successfully! You can now start chatting."

Banner(level, body) == [level |-> level, body |-> body]

----------------------------------------------------------------------------
(* get_pdf_text, lines 16-46 *)

\* lines 25-28: the page loop of one document, from page i on.  A page whose
\* extract_text() raises leaves the try block: raised = TRUE.
RECURSIVE PageLoop(_, _, _)
PageLoop(pages, i, file_text) ==
    IF i > Len(pages) THEN [raised |-> FALSE, file_text |-> file_text]
    ELSE IF pages[i].kind = "raise" THEN [raised |-> TRUE, file_text |-> file_text]
    ELSE LET extracted_text == IF pages[i].kind = "none" THEN NoneVal ELSE Some(pages[i].text)
         IN  PageLoop(pages, i + 1,
                      IF Truthy(extracted_text) THEN file_text \o extracted_text.val
                      ELSE file_text)

\* PdfStep with line 30 testing file_text instead of file_text.strip()
PdfStep_NoStrip(acc, pdf) ==
    IF ~pdf.opens
    THEN [acc EXCEPT !.unreadable_files = Append(@, pdf.name)]
    ELSE LET r == PageLoop(pdf.pages, 1, <<>>)
         IN  IF r.raised
             THEN [acc EXCEPT !.unreadable_files = Append(@, pdf.name)]
             ELSE IF r.file_text # <<>>
                  THEN [acc EXCEPT !.text = @ \o r.file_text]
                  ELSE [acc EXCEPT !.empty_text_files = Append(@, pdf.name)]

\* lines 22-36: the body of the document loop, applied to the accumulators
PdfStep(acc, pdf) ==
    IF ~pdf.opens
    THEN [acc EXCEPT !.unreadable_files = Append(@, pdf.name)]
    ELSE LET r == PageLoop(pdf.pages, 1, <<>>)
         IN  IF r.raised
             THEN [acc EXCEPT !.unreadable_files = Append(@, pdf.name)]
             ELSE IF Strip(r.file_text) # <<>>
                  THEN [acc EXCEPT !.text = @ \o r.file_text]
                  ELSE [acc EXCEPT !.empty_text_files = Append(@, pdf.name)]

\* PdfLoop putting a line feed between the documents' texts
RECURSIVE PdfLoop_Separator(_, _, _)
PdfLoop_Separator(docs, i, acc) ==
    IF i > Len(docs) THEN acc
    ELSE LET a == PdfStep(acc, docs[i])
         IN  PdfLoop_Separator(docs, i + 1,
                 IF acc.text # <<>> /\ a.text # acc.text
                 THEN [a EXCEPT !.text = acc.text \o <<"\n">> \o SubSeq(a.text, Len(acc.text) + 1, Len(a.text))]
                 ELSE a)

\* lines 17-36: the document loop, from document i on
RECURSIVE PdfLoop(_, _, _)
PdfLoop(docs, i, acc) ==
    IF i > Len(docs) THEN acc ELSE PdfLoop(docs, i + 1, PdfStep(acc, docs[i]))

\* PdfResult with the two checks of lines 38 and 42 in the other order
PdfResult_EmptyFirst(acc) ==
    IF acc.empty_text_files # <<>>
    THEN [ret |-> NoneVal,
          banners |-> <<Banner("warning", <<EmptyTextMsg>> \o Join(acc.empty_text_files, ", "))>>]
    ELSE IF acc.unreadable_files # <<>>
    THEN [ret |-> NoneVal,
          banners |-> <<Banner("warning", <<UnreadableMsg>> \o Join(acc.unreadable_files, ", "))>>]
    ELSE [ret |-> Some(acc.text), banners |-> <<>>]

\* lines 38-46: the result and the warning shown
PdfResult(acc) ==
    IF acc.unreadable_files # <<>>
    THEN [ret |-> NoneVal,
          banners |-> <<Banner("warning", <<UnreadableMsg>> \o Join(acc.unreadable_files, ", "))>>]
    ELSE IF acc.empty_text_files # <<>>
    THEN [ret |-> NoneVal,
          banners |-> <<Banner("warning", <<EmptyTextMsg>> \o Join(acc.empty_text_files, ", "))>>]
    ELSE [ret |-> Some(acc.text), banners |-> <<>>]

get_pdf_text(docs) ==
    PdfResult(PdfLoop(docs, 1,
                      [text |-> <<>>, unreadable_files |-> <<>>, empty_text_files |-> <<>>]))

----------------------------------------------------------------------------
(* get_text_chunks, get_vectorstore, get_conversation_chain, lines 49-106 *)

\* What FAISS.from_texts / ConversationalRetrievalChain.from_llm may do:
\* return an object, return something falsy, or raise
BuildResults == {"ok", "falsy", "raise"}

\* The library results of one Process run.  split: whether
\* CharacterTextSplitter.split_text returns any chunk.
\* A library called after one that failed is not called: its result is fixed.
ProcessEnvs ==
    {e \in [split : BOOLEAN, vectorstore : BuildResults, chain : BuildResults] :
        /\ ~e.split => e.vectorstore = "falsy"
        /\ e.vectorstore # "ok" => e.chain = "falsy"}
NoEnv == [split |-> FALSE, vectorstore |-> "falsy", chain |-> "falsy"]

\* lines 49-60
get_text_chunks(text, env) ==
    IF ~Truthy(text) THEN <<>>
    ELSE IF env.split THEN <<text.val>> ELSE <<>>

\* lines 63-71: "ok", "falsy" (None) or "raise"
get_vectorstore(text_chunks, env) ==
    IF text_chunks = <<>> THEN "falsy" ELSE env.vectorstore

\* lines 74-106: the chain built ("ok", "falsy" or "raise") and the banner shown
get_conversation_chain(vectorstore, env) ==
    IF vectorstore # "ok"
    THEN [ret |-> "falsy", banners |-> <<Banner("error", <<VectorstoreMissingMsg>>)>>]
    ELSE [ret |-> env.chain, banners |-> <<>>]

----------------------------------------------------------------------------
(* handle_userinput, lines 109-148 *)

\* What the call st.session_state.conversation({'question': q}) may do
ChainCalls ==
    {[raises |-> TRUE, answer |-> <<>>]}
        \cup {[raises |-> FALSE, answer |-> r] : r \in Replies}
NoCall == [raises |-> TRUE, answer |-> <<>>]

\* handle_userinput appending the reply before the question
handle_userinput_BotFirst(conv, history, question, call) ==
    IF conv = 0
    THEN [conversation |-> conv, chat_history |-> Append(history, <<"user", question>>),
          fault |-> "TypeError"]
    ELSE IF call.raises
    THEN [conversation |-> conv, chat_history |-> Append(history, <<"user", question>>),
          fault |-> "chain_call"]
    ELSE [conversation |-> conv,
          chat_history |-> history \o << <<"bot", call.answer>>, <<"user", question>> >>,
          fault |-> "none"]

\* handle_userinput dropping the chain when its call raises
handle_userinput_ResetOnError(conv, history, question, call) ==
    LET asked == Append(history, <<"user", question>>)
    IN  IF conv = 0
        THEN [conversation |-> conv, chat_history |-> asked, fault |-> "TypeError"]
        ELSE IF call.raises
        THEN [conversation |-> 0, chat_history |-> asked, fault |-> "chain_call"]
        ELSE [conversation |-> conv,
              chat_history |-> Append(asked, <<"bot", call.answer>>),
              fault |-> "none"]

\* The session state after the call, and the exception that left it, if any.
\* Line 114 appends to the list held by the session state, so the entry
\* stays when line 138 raises.  conv = 0: None is not callable.
handle_userinput(conv, history, question, call) ==
    LET asked == Append(history, <<"user", question>>)
    IN  IF conv = 0
        THEN [conversation |-> conv, chat_history |-> asked, fault |-> "TypeError"]
        ELSE IF call.raises
        THEN [conversation |-> conv, chat_history |-> asked, fault |-> "chain_call"]
        ELSE [conversation |-> conv,
              chat_history |-> Append(asked, <<"bot", call.answer>>),
              fault |-> "none"]

----------------------------------------------------------------------------
(* main, lines 151-206 *)

Stages == <<"get_pdf_text", "get_text_chunks", "get_vectorstore", "get_conversation_chain">>

\* What the Process branch did: the chain bound afterwards, the value
\* get_pdf_text returned, the result of each stage called ("ok", "falsy" or
\* "raise", in call order), the banners shown, the exception that left the run
ProcessOut(conv, raw_text, results, banners, fault, success) ==
    [conversation |-> conv, raw_text |-> raw_text, results |-> results,
     banners |-> banners, fault |-> fault, success |-> success]

Ok(truthy) == IF truthy THEN "ok" ELSE "falsy"

\* Finish without the check of line 200: whatever was built is assigned
Finish_NoCheck(conv, raw_text, results, banners, chain) ==
    ProcessOut(IF chain = "ok" THEN conv + 1 ELSE 0, raw_text, results,
               banners \o <<Banner("success", <<SuccessMsg>>)>>, "none", TRUE)

\* Finish with the assignment of line 204 before the check of line 200
Finish_AssignFirst(conv, raw_text, results, banners, chain) ==
    IF chain # "ok"
    THEN ProcessOut(0, raw_text, results,
                    banners \o <<Banner("error", <<ChainFailedMsg>>)>>, "none", FALSE)
    ELSE ProcessOut(conv + 1, raw_text, results,
                    banners \o <<Banner("success", <<SuccessMsg>>)>>, "none", TRUE)

\* lines 199-206: the check of the chain built, and the assignment
Finish(conv, raw_text, results, banners, chain) ==
    IF chain # "ok"
    THEN ProcessOut(conv, raw_text, results,
                    banners \o <<Banner("error", <<ChainFailedMsg>>)>>, "none", FALSE)
    ELSE ProcessOut(conv + 1, raw_text, results,
                    banners \o <<Banner("success", <<SuccessMsg>>)>>, "none", TRUE)

\* lines 178-206: the body of `if st.button("Process")`
Process(conv, docs, env) ==
    IF docs = <<>>
    THEN ProcessOut(conv, NoneVal, <<>>, <<Banner("error", <<NoPdfMsg>>)>>, "none", FALSE)
    ELSE
    LET pdf == get_pdf_text(docs)
        raw_text == pdf.ret
        r1 == <<Ok(Truthy(raw_text))>>
        text_chunks == get_text_chunks(raw_text, env)
        r2 == Append(r1, Ok(text_chunks # <<>>))
        vectorstore == get_vectorstore(text_chunks, env)
        r3 == Append(r2, vectorstore)
        chain == get_conversation_chain(vectorstore, env)
        r4 == Append(r3, chain.ret)
    IN  IF ~Truthy(raw_text)
        THEN ProcessOut(conv, raw_text, r1,
                        pdf.banners \o <<Banner("error", <<StoppedMsg>>)>>, "none", FALSE)
        ELSE IF text_chunks = <<>>
        THEN ProcessOut(conv, raw_text, r2,
                        pdf.banners \o <<Banner("error", <<NoChunksMsg>>)>>, "none", FALSE)
        ELSE IF vectorstore = "raise"
        THEN ProcessOut(conv, raw_text, r3, pdf.banners, "get_vectorstore", FALSE)
        ELSE IF vectorstore # "ok"
        THEN ProcessOut(conv, raw_text, r3,
                        pdf.banners \o <<Banner("error", <<VectorstoreFailedMsg>>)>>,
                        "none", FALSE)
        ELSE IF chain.ret = "raise"
        THEN ProcessOut(conv, raw_text, r4, pdf.banners \o chain.banners,
                        "get_conversation_chain", FALSE)
        ELSE Finish(conv, raw_text, r4, pdf.banners \o chain.banners, chain.ret)

\* What a script run did: whether "Process" was clicked, whether
\* handle_userinput was called and whether its chain call returned, whether the
\* Process branch was entered, and what that branch did
RunOut(button, asked, answered, process, p) ==
    [button |-> button, asked |-> asked, answered |-> answered, process |-> process,
     fault |-> p.fault, raw_text |-> p.raw_text, results |-> p.results,
     banners |-> p.banners, success |-> p.success]

\* One script run: the session state after it and what it did.  An exception
\* in handle_userinput ends the run before the sidebar is reached.
main(conv, history, question, docs, button, call, env) ==
    LET asked == question # <<>>
        h == IF asked THEN handle_userinput(conv, history, question, call)
             ELSE [conversation |-> conv, chat_history |-> history, fault |-> "none"]
        process == h.fault = "none" /\ button
        p == IF process THEN Process(h.conversation, docs, env)
             ELSE ProcessOut(h.conversation, NoneVal, <<>>, <<>>, h.fault, FALSE)
    IN  [conversation |-> p.conversation,
         chat_history |-> h.chat_history,
         out |-> RunOut(button, asked, asked /\ h.fault = "none", process, p)]

----------------------------------------------------------------------------
(* The session: one action per kind of interaction, each a script run *)

Init ==
    /\ conversation = 0
    /\ chat_history = <<>>
    /\ user_question = <<>>
    /\ pdf_docs = <<>>
    /\ out = main(0, <<>>, <<>>, <<>>, FALSE, NoCall, NoEnv).out

Rerun(question, docs, button) ==
    /\ question # <<>> => Len(chat_history) + 2 <= MaxHistory
    /\ \E call \in (IF question # <<>> /\ conversation # 0 THEN ChainCalls ELSE {NoCall}) :
       \E env \in (IF button THEN ProcessEnvs ELSE {NoEnv}) :
          LET r == main(conversation, chat_history, question, docs, button, call, env)
          IN  /\ r.conversation <= MaxChains
              /\ conversation' = r.conversation
              /\ chat_history' = r.chat_history
              /\ out' = r.out
              /\ user_question' = question
              /\ pdf_docs' = docs

\* The user submits a new value of the question text input (possibly clearing it)
AskQuestion ==
    \E q \in Questions \cup {<<>>} :
        /\ q # user_question
        /\ Rerun(q, pdf_docs, FALSE)

\* The user adds a file to the uploader
AddFile(pool, max) ==
    \E d \in pool :
        /\ Len(pdf_docs) < max
        /\ Rerun(user_question, Append(pdf_docs, d), FALSE)

\* The user removes a file from the uploader
RemoveFile ==
    \E i \in 1..Len(pdf_docs) :
        Rerun(user_question,
              SubSeq(pdf_docs, 1, i - 1) \o SubSeq(pdf_docs, i + 1, Len(pdf_docs)), FALSE)

\* The user clicks "Process"
ClickProcess == Rerun(user_question, pdf_docs, TRUE)

UploadSession == AddFile(SessionDocs, MaxSessionDocs)
UploadAny == AddFile(Docs, MaxDocs)

Next == AskQuestion \/ UploadSession \/ RemoveFile \/ ClickProcess

Spec == Init /\ [][Next]_vars

\* Uploads of every bounded batch, for the claims about extraction
NextExtract == UploadAny \/ ClickProcess

SpecExtract == Init /\ [][NextExtract]_vars

----------------------------------------------------------------------------
(* The documents of a batch, as the specification classifies them *)

RECURSIVE FlatText(_)
FlatText(pages) == IF pages = <<>> THEN <<>> ELSE Head(pages).text \o FlatText(Tail(pages))

Unreadable(d) == ~d.opens \/ \E i \in 1..Len(d.pages) : d.pages[i].kind = "raise"

Blank(d) ==
    /\ ~Unreadable(d)
    /\ \A k \in 1..Len(FlatText(d.pages)) : IsSpace(FlatText(d.pages)[k])

Usable(d) == ~Unreadable(d) /\ ~Blank(d)

NamesOfUnreadable(docs) ==
    LET sel == SelectSeq(docs, Unreadable) IN [i \in 1..Len(sel) |-> sel[i].name]

NamesOfBlank(docs) ==
    LET sel == SelectSeq(docs, Blank) IN [i \in 1..Len(sel) |-> sel[i].name]

RECURSIVE BatchText(_)
BatchText(docs) ==
    IF docs = <<>> THEN <<>> ELSE FlatText(Head(docs).pages) \o BatchText(Tail(docs))

IsWarning(b) == b.level = "warning"
IsComma(x) == x = ", "
NotComma(x) == ~IsComma(x)

\* The warnings a run showed, and the names a warning lists
Warnings(o) == SelectSeq(o.banners, IsWarning)
Named(b) == SelectSeq(Tail(b.body), NotComma)

\* A warning lists its names with ", " between each two and nowhere else
WellJoined(b) ==
    \A k \in 1..(Len(b.body) - 1) : IsComma(Tail(b.body)[k]) <=> (k % 2 = 0)

----------------------------------------------------------------------------
(* Claims about extraction, checked under SpecExtract *)

\* C1: a Process run on a batch with at least one unreadable document fails:
\* get_pdf_text returns None, no later stage runs, no chain is assigned, and
\* the one warning shown lists exactly the unreadable documents' names in
\* input order (none of the empty-text ones).
C1_UnreadableBatchFails ==
    [][(out'.process /\ \E i \in 1..Len(pdf_docs') : Unreadable(pdf_docs'[i])) =>
          /\ out'.raw_text = NoneVal
          /\ out'.results = <<"falsy">>
          /\ ~out'.success
          /\ conversation' = conversation
          /\ Len(Warnings(out')) = 1
          /\ Warnings(out')[1].body[1] = UnreadableMsg
          /\ WellJoined(Warnings(out')[1])
          /\ Named(Warnings(out')[1]) = NamesOfUnreadable(pdf_docs')]_vars

\* C1 witness: a processed batch holding an empty-text document followed by an
\* unreadable one
C1_Witness ==
    /\ out.process
    /\ Len(pdf_docs) = 2
    /\ Blank(pdf_docs[1])
    /\ Unreadable(pdf_docs[2])
    /\ Named(Warnings(out)[1]) = <<pdf_docs[2].name>>

\* C2: a Process run on a batch with no unreadable document and at least one
\* empty-text document fails: get_pdf_text returns None, no chain is assigned,
\* and the one warning shown lists exactly the empty-text documents' names in
\* input order.
C2_EmptyTextBatchFails ==
    [][(/\ out'.process
        /\ \A i \in 1..Len(pdf_docs') : ~Unreadable(pdf_docs'[i])
        /\ \E i \in 1..Len(pdf_docs') : Blank(pdf_docs'[i])) =>
          /\ out'.raw_text = NoneVal
          /\ out'.results = <<"falsy">>
          /\ ~out'.success
          /\ conversation' = conversation
          /\ Len(Warnings(out')) = 1
          /\ Warnings(out')[1].body[1] = EmptyTextMsg
          /\ WellJoined(Warnings(out')[1])
          /\ Named(Warnings(out')[1]) = NamesOfBlank(pdf_docs')]_vars

\* C2 witness: a processed batch of a usable document and a whitespace-only one
C2_Witness ==
    /\ out.process
    /\ Len(pdf_docs) = 2
    /\ Usable(pdf_docs[1])
    /\ Blank(pdf_docs[2])
    /\ FlatText(pdf_docs[2].pages) # <<>>
    /\ Named(Warnings(out)[1]) = <<pdf_docs[2].name>>

\* C3: when Process calls get_pdf_text, it returns a text exactly if every
\* document is readable and has non-whitespace text; the text is then the
\* documents' texts one after the other in input order, it is not empty, and
\* the run goes on to get_text_chunks.
C3_ExtractionSucceedsIffAllUsable ==
    (out.process /\ pdf_docs # <<>>) =>
        /\ ~out.raw_text.none <=> \A i \in 1..Len(pdf_docs) : Usable(pdf_docs[i])
        /\ ~out.raw_text.none =>
              /\ out.raw_text.val = BatchText(pdf_docs)
              /\ out.raw_text.val # <<>>
              /\ Len(out.results) >= 2
              /\ out.results[1] = "ok"

\* C3 witness: a processed batch of two usable documents with different texts
C3_Witness ==
    /\ out.process
    /\ Len(pdf_docs) = 2
    /\ Usable(pdf_docs[1])
    /\ Usable(pdf_docs[2])
    /\ FlatText(pdf_docs[1].pages) # FlatText(pdf_docs[2].pages)
    /\ out.raw_text.val = FlatText(pdf_docs[1].pages) \o FlatText(pdf_docs[2].pages)
    /\ Len(out.results) >= 2

----------------------------------------------------------------------------
(* Claims about the session, checked under Spec *)

IsAlert(b) == b.level \in {"warning", "error"}

\* A Process branch that ended at one of its own checks
FailedProcess(o) == o.process /\ ~o.success /\ o.fault = "none"

\* The stages ran in order up to the first whose result is not "ok"
StoppedAtFirstFailure(results) ==
    /\ Len(results) <= Len(Stages)
    /\ \A k \in 1..Len(results) : (results[k] = "ok") <=> (k < Len(results))

\* C4: the chain is None at the start of a session, and a run changes the
\* bound chain only if its Process branch ran extraction, chunking, index
\* construction and chain construction, in that order, each with a usable
\* result; the chain is then not None.
C4_ChainOnlyAfterFullPipeline ==
    /\ conversation = 0
    /\ [][conversation' # conversation =>
             /\ out'.process
             /\ out'.results = <<"ok", "ok", "ok", "ok">>
             /\ Truthy(out'.raw_text)
             /\ out'.success
             /\ conversation' # 0]_vars

\* C4 witness: a chain is bound after a second successful Process
C4_Witness == conversation = 2 /\ out.success /\ out.results = <<"ok", "ok", "ok", "ok">>

\* C5: a question submitted while the session is idle is rejected with a
\* message, and the run does not end in an unhandled exception.
C5_IdleQuestionRejected ==
    (out.asked /\ conversation = 0) =>
        /\ out.fault = "none"
        /\ \E k \in 1..Len(out.banners) : IsAlert(out.banners[k])

\* C6 as stated, for the first stage: after a Process branch that stopped at
\* extraction (get_pdf_text returned nothing usable) the session is idle.
C6_FailedProcessEndsIdle ==
    (out.process /\ ~out.success /\ out.results = <<"falsy">>) => conversation = 0

\* C6 as amended: a Process branch that does not succeed leaves the session as
\* it found it: idle when it was idle, ready when it was ready.
C6_FailedProcessKeepsState ==
    [][(out'.process /\ ~out'.success) => ((conversation' = 0) <=> (conversation = 0))]_vars

\* C6 witness: a failed Process of a whitespace-only document in a ready session
C6_Witness ==
    /\ out.process
    /\ ~out.success
    /\ conversation # 0
    /\ \E i \in 1..Len(pdf_docs) : Blank(pdf_docs[i])

\* C7: a Process branch that fails at one of its checks shows a warning or an
\* error, runs no stage after the failing one, and leaves the bound chain as it
\* was.
C7_FailedProcessCommitsNothing ==
    [][FailedProcess(out') =>
          /\ \E k \in 1..Len(out'.banners) : IsAlert(out'.banners[k])
          /\ StoppedAtFirstFailure(out'.results)
          /\ (out'.results = <<>>) <=> (pdf_docs' = <<>>)
          /\ conversation' = conversation]_vars

\* C7 witness: a Process of a batch with an unreadable document, failed in a
\* ready session whose chain is still bound
C7_Witness ==
    /\ FailedProcess(out)
    /\ conversation # 0
    /\ out.results = <<"falsy">>
    /\ \E i \in 1..Len(pdf_docs) : Unreadable(pdf_docs[i])

\* C8: a run whose Process branch is entered, and succeeds or stops at
\* extraction, leaves chat_history as it was.
C8_ProcessKeepsHistory ==
    [][(out'.process /\ (out'.success \/ out'.results = <<"falsy">>)) =>
          chat_history' = chat_history]_vars

IsPaired(h) ==
    /\ Len(h) % 2 = 0
    /\ \A k \in 1..Len(h) : h[k][1] = (IF k % 2 = 1 THEN "user" ELSE "bot")

\* C9: a run that handles a question in a ready session and whose chain call
\* returns extends chat_history by ("user", question) and then ("bot", reply),
\* in that order, and changes no earlier entry; a history of user/bot pairs
\* stays one.
C9_QuestionAppendsUserThenBot ==
    [][out'.answered =>
          /\ \E r \in Replies :
                chat_history' =
                    chat_history \o << <<"user", user_question'>>, <<"bot", r>> >>
          /\ IsPaired(chat_history) => IsPaired(chat_history')]_vars

\* C9 witness: two questions answered one after the other
C9_Witness ==
    /\ out.answered
    /\ Len(chat_history) = 4
    /\ IsPaired(chat_history)
    /\ chat_history[1][2] # chat_history[3][2]

\* C10: a run that handles a question in a ready session and does not enter
\* the Process branch leaves the bound chain as it was, and a run replaces the
\* bound chain only when its Process branch succeeds.
C10_QuestionKeepsChain ==
    /\ [][(out'.asked /\ conversation # 0 /\ ~out'.process) =>
             conversation' = conversation]_vars
    /\ [][conversation' # conversation => (out'.process /\ out'.success)]_vars

\* C10 witness: a question whose chain call raised, in a session still ready
C10_Witness ==
    /\ out.asked
    /\ ~out.answered
    /\ out.fault = "chain_call"
    /\ conversation # 0

====
